---- MODULE Spec2Model ----
(***************************************************************************)
(* Model of lambda_function.py: the S3-triggered DASH transcoding handler. *)
(*                                                                         *)
(* The state is the local staging filesystem under /tmp, the objects       *)
(* written to S3, the position of the running call and its local           *)
(* variables.  Strings that the code parses (object keys, file names) are  *)
(* sequences of tokens, a token being "/", ".", "+", "%2E", " " or a run   *)
(* of other characters; strings that the code only builds are TLA+ strings.*)
(***************************************************************************)
EXTENDS Integers, Sequences, FiniteSets, TLC

VARIABLES
    pc,           \* position of the running call, "idle" before the first
    caller,       \* "handler" (lambda_handler) or "direct" (run_ffmpeg_dash called alone)
    inv,          \* number of calls started so far
    event,        \* the event lambda_handler was invoked with
    fs,           \* staging filesystem: path -> [kind, entries]
    s3objects,    \* objects written by upload_file: <<bucket, key>> -> [ContentType, from]
    bucket, key, ext, file_id,          \* locals of lambda_handler
    input_path, output_dir, resolutions,\* arguments of run_ffmpeg_dash
    filters,      \* the filter expressions built by run_ffmpeg_dash
    cmd,          \* the command list built by run_ffmpeg_dash
    proc,         \* the CompletedProcess of subprocess.run, and what the process wrote
    output_files, \* return value of run_ffmpeg_dash
    iter,         \* entries output_dir.iterdir() has yet to yield
    exc,          \* the exception propagating, or NoExc
    retval,       \* the value of the return statement waiting for the finally block
    response,     \* what the call returned to its caller, or NoResp
    log           \* the external operations this call performed, in order

vars == << pc, caller, inv, event, fs, s3objects, bucket, key, ext, file_id,
           input_path, output_dir, resolutions, filters, cmd, proc, output_files,
           iter, exc, retval, response, log >>

-----------------------------------------------------------------------------
(* Bounds of the model *)

MaxInvocations == 2     \* calls in one behaviour
MaxRes == 2             \* length of a resolution list passed directly

-----------------------------------------------------------------------------
(* Program constants *)

ALLOWED_EXTENSIONS ==
    { <<".", "mp4">>, <<".", "mkv">>, <<".", "mov">>, <<".", "avi">>, <<".", "webm">> }

RESOLUTIONS == << <<1280, 720>>, <<854, 480>>, <<640, 360>>, <<426, 240>> >>

AUDIO_BITRATES == [h \in {720, 480, 360, 240} |->
    CASE h = 720 -> "128k" [] h = 480 -> "96k" [] h = 360 -> "64k" [] h = 240 -> "48k"]

output_bucket == "manifestdatabucket"

temp_dir == "/tmp"

ffmpeg_path == "/var/task/bin/ffmpeg"

NoExc == [type |-> "none", msg |-> ""]

-----------------------------------------------------------------------------
(* String helpers: what str.join, str.lower, unquote_plus and pathlib do *)

RECURSIVE Str(_)
\* the string a token sequence spells
Str(toks) == IF toks = <<>> THEN "" ELSE Head(toks) \o Str(Tail(toks))

\* str.lower on one token
LowerTok(t) ==
    CASE t = "MP4" -> "mp4"
      [] t = "MOV" -> "mov"
      [] t = "Clip" -> "clip"
      [] OTHER -> t

Lower(toks) == [i \in 1..Len(toks) |-> LowerTok(toks[i])]

\* urllib.parse.unquote_plus: "+" is a space, %XX is the character
UnquoteTok(t) ==
    CASE t = "+" -> " "
      [] t = "%2E" -> "."
      [] t = "%2F" -> "/"
      [] OTHER -> t

unquote_plus(toks) == [i \in 1..Len(toks) |-> UnquoteTok(toks[i])]

\* index of the last occurrence of t in toks, 0 when there is none (str.rfind + 1)
RFind(toks, t) ==
    LET I == {i \in 1..Len(toks) : toks[i] = t}
    IN  IF I = {} THEN 0 ELSE CHOOSE i \in I : \A j \in I : j <= i

RECURSIVE StripSlashes(_)
\* pathlib drops trailing separators
StripSlashes(toks) ==
    IF toks # <<>> /\ toks[Len(toks)] = "/"
    THEN StripSlashes(SubSeq(toks, 1, Len(toks) - 1))
    ELSE toks

\* PurePath.name: the final path component
PathName(toks) ==
    LET p == StripSlashes(toks)
    IN  SubSeq(p, RFind(p, "/") + 1, Len(p))

\* PurePath.suffix: from the last dot of the name, unless the name starts or ends with it
NameSuffix(name) ==
    LET i == RFind(name, ".")
    IN  IF 1 < i /\ i < Len(name) THEN SubSeq(name, i, Len(name)) ELSE <<>>

\* PurePath.stem: the name without its suffix
NameStem(name) ==
    LET i == RFind(name, ".")
    IN  IF 1 < i /\ i < Len(name) THEN SubSeq(name, 1, i - 1) ELSE name

PathSuffix(toks) == NameSuffix(PathName(toks))
PathStem(toks) == NameStem(PathName(toks))

-----------------------------------------------------------------------------
(* The staging filesystem *)

FileNode == [kind |-> "file", entries |-> {}]
DirNode(es) == [kind |-> "dir", entries |-> es]

Exists(f, p) == p \in DOMAIN f
IsDir(f, p) == Exists(f, p) /\ f[p].kind = "dir"

\* f without path p
Removed(f, p) == [q \in DOMAIN f \ {p} |-> f[q]]
\* f with path p holding node n
Written(f, p, n) == [q \in DOMAIN f \cup {p} |-> IF q = p THEN n ELSE f[q]]

\* a directory entry: a name and whether it is a regular file
Entry(name, kind) == [name |-> name, kind |-> kind]

manifest_mpd == <<"manifest", ".", "mpd">>
init_m4s == <<"init_0", ".", "m4s">>
stale_m4s == <<"stale", ".", "m4s">>

-----------------------------------------------------------------------------
(* Inputs *)

\* object keys as they arrive in the notification (still URL-encoded)
Keys ==
    { <<"b", "/", "clip", ".", "mov">>,
      <<"videos", "/", "clip", ".", "MP4">>,
      <<"my", "+", "videos", "%2F", "clip", "%2E", "mp4">>,
      <<"clip", ".", "txt">>,
      <<"clip">>,
      <<".", "mp4">> }

S3Record(b, k) == [s3 |-> [bucket |-> [name |-> b], object |-> [key |-> k]]]

\* every key from the first bucket, and the same stem from a second one
WellFormedEvents ==
    { [Records |-> <<S3Record("uploads", k)>>] : k \in Keys }
        \cup { [Records |-> <<S3Record("archive", <<"b", "/", "clip", ".", "mov">>)>>] }

MalformedEvents ==
    { [detail |-> "ping"],
      [Records |-> <<>>],
      [Records |-> << [s3 |-> [bucket |-> [arn |-> "x"],
                               object |-> [key |-> <<"clip", ".", "mp4">>]]] >>],
      [Records |-> << [s3 |-> [bucket |-> [name |-> "uploads"],
                               object |-> [size |-> "1"]]] >>] }

Events == WellFormedEvents \cup MalformedEvents

\* what /tmp may hold when a call starts: nothing, or what a run that was killed
\* before its finally block completed left behind
InitialStagings ==
    LET none == [p \in {} |-> FileNode]
        inp  == temp_dir \o "/clip.mp4"
        out  == temp_dir \o "/clip_dash_output"
        leftovers == DirNode({Entry(manifest_mpd, "file"), Entry(stale_m4s, "file")})
    IN  { none,
          Written(none, inp, FileNode),
          Written(none, out, leftovers),
          Written(Written(none, inp, FileNode), out, leftovers) }

\* what the ffmpeg process may leave in the output directory
ProducedSets ==
    { {},
      {Entry(manifest_mpd, "file")},
      {Entry(manifest_mpd, "file"), Entry(init_m4s, "file")} }

StderrTexts == {"Invalid data found", "Conversion failed!"}

\* resolution pairs and lists for a direct call of run_ffmpeg_dash
ResPairs == { <<1280, 720>>, <<100, 100>> }

RECURSIVE SeqsUpTo(_, _)
SeqsUpTo(S, n) ==
    IF n = 0 THEN { <<>> }
    ELSE LET shorter == SeqsUpTo(S, n - 1)
         IN  shorter \cup { Append(s, x) : s \in shorter, x \in S }

ResolutionLists == SeqsUpTo(ResPairs, MaxRes)

-----------------------------------------------------------------------------
(* Exceptions and responses *)

Exc(type, msg) == [type |-> type, msg |-> msg]

NoResp == [statusCode |-> 0, body |-> ""]

\* no process has run: subprocess.run's result has a return code and the text of
\* stderr; wrote records the directory entries the process wrote
NoProc == [returncode |-> 0, stderr |-> "", wrote |-> {}]

LogEntry(op, arg, ok) == [op |-> op, arg |-> arg, ok |-> ok]

\* the locals a new call starts with
FreshLocals ==
    /\ bucket' = ""
    /\ key' = <<>>
    /\ ext' = <<>>
    /\ file_id' = <<>>
    /\ input_path' = ""
    /\ output_dir' = ""
    /\ resolutions' = <<>>
    /\ filters' = <<>>
    /\ cmd' = <<>>
    /\ proc' = NoProc
    /\ output_files' = {}
    /\ iter' = {}
    /\ exc' = NoExc
    /\ retval' = NoResp
    /\ response' = NoResp
    /\ log' = <<>>

Init ==
    /\ pc = "idle"
    /\ caller = "handler"
    /\ inv = 0
    /\ event = [detail |-> "ping"]
    /\ fs \in InitialStagings
    /\ s3objects = [o \in {} |-> [ContentType |-> "", from |-> 0]]
    /\ bucket = ""
    /\ key = <<>>
    /\ ext = <<>>
    /\ file_id = <<>>
    /\ input_path = ""
    /\ output_dir = ""
    /\ resolutions = <<>>
    /\ filters = <<>>
    /\ cmd = <<>>
    /\ proc = NoProc
    /\ output_files = {}
    /\ iter = {}
    /\ exc = NoExc
    /\ retval = NoResp
    /\ response = NoResp
    /\ log = <<>>

-----------------------------------------------------------------------------
(* lambda_handler *)

\* the runtime calls lambda_handler(event, context)
Invoke ==
    /\ pc \in {"idle", "returned"}
    /\ inv < MaxInvocations
    /\ \E e \in Events : event' = e
    /\ pc' = "parse"
    /\ caller' = "handler"
    /\ inv' = inv + 1
    /\ FreshLocals
    /\ UNCHANGED << fs, s3objects >>

\* the exception the subscripts of lines 113-115 raise on event e, NoExc when none
ParseError(e) ==
    IF "Records" \notin DOMAIN e THEN Exc("KeyError", "'Records'")
    ELSE IF Len(e.Records) = 0 THEN Exc("IndexError", "list index out of range")
    ELSE LET record == e.Records[1]
         IN  IF "s3" \notin DOMAIN record THEN Exc("KeyError", "'s3'")
             ELSE IF "bucket" \notin DOMAIN record.s3 THEN Exc("KeyError", "'bucket'")
             ELSE IF "name" \notin DOMAIN record.s3.bucket THEN Exc("KeyError", "'name'")
             ELSE IF "object" \notin DOMAIN record.s3 THEN Exc("KeyError", "'object'")
             ELSE IF "key" \notin DOMAIN record.s3.object THEN Exc("KeyError", "'key'")
             ELSE NoExc

\* mutant: the extension is not tested
Supported_unchecked(x) == TRUE

\* line 118: the extension test
Supported(x) == x \in ALLOWED_EXTENSIONS

\* line 121: the body of the 400 response (the set is printed in some order)
UnsupportedBody(x) ==
    "Unsupported format: " \o Str(x) \o ". Allowed: {'.mp4', '.mkv', '.mov', '.avi', '.webm'}"

\* lines 128-129: the two staging paths
InputPathOf(stem, x) == temp_dir \o "/" \o Str(stem) \o Str(x)
OutputDirOf(stem) == temp_dir \o "/" \o Str(stem) \o "_dash_output"

\* mutant: no outer try statement, the exception leaves lambda_handler
\* mutant: the exception enters the finally block as if raised inside the try
RaiseOutsideTry_cleanup(e) ==
    /\ exc' = e
    /\ pc' = "finally"

RaiseOutsideTry_escapes(e) ==
    /\ exc' = e
    /\ pc' = "raised"

\* an exception raised outside the inner try statement reaches the outer handler
RaiseOutsideTry(e) ==
    /\ exc' = e
    /\ pc' = "except"

\* mutant: the statement is not covered by the finally block
RaiseInTry_nofinally(e) ==
    /\ exc' = e
    /\ pc' = "except"

\* an exception raised inside the inner try statement is re-raised (line 173)
\* and leaves through the finally block
RaiseInTry(e) ==
    /\ exc' = e
    /\ pc' = "finally"

\* lines 113-129
ParseEvent ==
    /\ pc = "parse"
    /\ IF ParseError(event) # NoExc
       THEN /\ RaiseOutsideTry(ParseError(event))
            /\ UNCHANGED << bucket, key, ext, file_id, input_path, output_dir, response >>
       ELSE LET record == event.Records[1]
                k == unquote_plus(record.s3.object.key)
                x == Lower(PathSuffix(k))
            IN  /\ bucket' = record.s3.bucket.name
                /\ key' = k
                /\ ext' = x
                /\ IF ~Supported(x)
                   THEN /\ response' = [statusCode |-> 400, body |-> UnsupportedBody(x)]
                        /\ pc' = "returned"
                        /\ UNCHANGED << file_id, input_path, output_dir, exc >>
                   ELSE /\ file_id' = PathStem(k)
                        /\ input_path' = InputPathOf(PathStem(k), x)
                        /\ output_dir' = OutputDirOf(PathStem(k))
                        /\ pc' = "reset_input"
                        /\ UNCHANGED << response, exc >>
    /\ UNCHANGED << caller, inv, event, fs, s3objects, resolutions, filters, cmd, proc,
                    output_files, iter, retval, log >>

\* mutant: the file is left in place
Unlinked_kept(f, p) == f

\* Path.unlink / os.remove on path p of f: the file is gone
Unlinked(f, p) == Removed(f, p)

\* mutant: rmtree leaves the directory in place
Rmtreed_kept(f, p) == f

\* shutil.rmtree on path p of f: the directory and all it holds are gone
Rmtreed(f, p) == Removed(f, p)

\* lines 132-133: if input_path.exists(): input_path.unlink()
ResetInput ==
    /\ pc = "reset_input"
    /\ IF ~Exists(fs, input_path)
       THEN /\ pc' = "reset_output"
            /\ UNCHANGED << fs, exc, log >>
       ELSE IF IsDir(fs, input_path)
       THEN /\ RaiseOutsideTry(Exc("IsADirectoryError", "[Errno 21] Is a directory"))
            /\ log' = Append(log, LogEntry("unlink", input_path, FALSE))
            /\ UNCHANGED fs
       ELSE \/ /\ fs' = Unlinked(fs, input_path)
               /\ log' = Append(log, LogEntry("unlink", input_path, TRUE))
               /\ pc' = "reset_output"
               /\ UNCHANGED exc
            \/ /\ RaiseOutsideTry(Exc("PermissionError", "[Errno 13] Permission denied"))
               /\ log' = Append(log, LogEntry("unlink", input_path, FALSE))
               /\ UNCHANGED fs
    /\ UNCHANGED << caller, inv, event, s3objects, bucket, key, ext, file_id,
                    input_path, output_dir, resolutions, filters, cmd, proc, output_files,
                    iter, retval, response >>

\* lines 134-135: if output_dir.exists(): shutil.rmtree(output_dir)
ResetOutput ==
    /\ pc = "reset_output"
    /\ IF ~Exists(fs, output_dir)
       THEN /\ pc' = "download"
            /\ UNCHANGED << fs, exc, log >>
       ELSE IF ~IsDir(fs, output_dir)
       THEN /\ RaiseOutsideTry(Exc("NotADirectoryError", "[Errno 20] Not a directory"))
            /\ log' = Append(log, LogEntry("rmtree", output_dir, FALSE))
            /\ UNCHANGED fs
       ELSE \/ /\ fs' = Rmtreed(fs, output_dir)
               /\ log' = Append(log, LogEntry("rmtree", output_dir, TRUE))
               /\ pc' = "download"
               /\ UNCHANGED exc
            \/ /\ RaiseOutsideTry(Exc("PermissionError", "[Errno 13] Permission denied"))
               /\ log' = Append(log, LogEntry("rmtree", output_dir, FALSE))
               /\ UNCHANGED fs
    /\ UNCHANGED << caller, inv, event, s3objects, bucket, key, ext, file_id,
                    input_path, output_dir, resolutions, filters, cmd, proc, output_files,
                    iter, retval, response >>

\* lines 138-141: s3.download_file(bucket, key, str(input_path)), then the call
\* of run_ffmpeg_dash(str(input_path), output_dir, RESOLUTIONS)
Download ==
    /\ pc = "download"
    /\ \/ /\ fs' = Written(fs, input_path, FileNode)
          /\ log' = Append(log, LogEntry("download", Str(key), TRUE))
          /\ resolutions' = RESOLUTIONS
          /\ pc' = "mkdir"
          /\ UNCHANGED exc
       \/ /\ RaiseInTry(Exc("ClientError", "An error occurred (404) when calling the HeadObject operation: Not Found"))
          /\ log' = Append(log, LogEntry("download", Str(key), FALSE))
          /\ UNCHANGED << fs, resolutions >>
    /\ UNCHANGED << caller, inv, event, s3objects, bucket, key, ext, file_id,
                    input_path, output_dir, filters, cmd, proc, output_files,
                    iter, retval, response >>

-----------------------------------------------------------------------------
(* run_ffmpeg_dash *)

\* mutant: the caller swallows the exception and carries on with the uploads
RaiseInRun_swallowed(e) ==
    /\ pc' = "upload"
    /\ UNCHANGED exc

\* an exception leaving run_ffmpeg_dash: into the handler's try statement, or
\* to whoever called the function directly
RaiseInRun(e) ==
    IF caller = "handler"
    THEN RaiseInTry(e)
    ELSE /\ exc' = e
         /\ pc' = "raised"

\* a direct call run_ffmpeg_dash(input_path, output_dir, resolutions)
CallRunFfmpegDash ==
    /\ pc \in {"idle", "returned", "raised"}
    /\ inv < MaxInvocations
    /\ \E r \in ResolutionLists :
          /\ bucket' = ""
          /\ key' = <<>>
          /\ ext' = <<>>
          /\ file_id' = <<>>
          /\ input_path' = temp_dir \o "/clip.mp4"
          /\ output_dir' = temp_dir \o "/clip_dash_output"
          /\ resolutions' = r
    /\ filters' = <<>>
    /\ cmd' = <<>>
    /\ proc' = NoProc
    /\ output_files' = {}
    /\ iter' = {}
    /\ exc' = NoExc
    /\ retval' = NoResp
    /\ response' = NoResp
    /\ log' = <<>>
    /\ pc' = "mkdir"
    /\ caller' = "direct"
    /\ inv' = inv + 1
    /\ UNCHANGED << event, fs, s3objects >>

\* lines 35-36: output_dir.mkdir(parents=True, exist_ok=True); os.chmod(...)
Mkdir ==
    /\ pc = "mkdir"
    /\ IF IsDir(fs, output_dir)
       THEN /\ pc' = "build"
            /\ UNCHANGED << fs, exc, log >>
       ELSE IF Exists(fs, output_dir)
       THEN /\ RaiseInRun(Exc("FileExistsError", "[Errno 17] File exists"))
            /\ log' = Append(log, LogEntry("mkdir", output_dir, FALSE))
            /\ UNCHANGED fs
       ELSE \/ /\ fs' = Written(fs, output_dir, DirNode({}))
               /\ log' = Append(log, LogEntry("mkdir", output_dir, TRUE))
               /\ pc' = "build"
               /\ UNCHANGED exc
            \/ /\ RaiseInRun(Exc("OSError", "[Errno 28] No space left on device"))
               /\ log' = Append(log, LogEntry("mkdir", output_dir, FALSE))
               /\ UNCHANGED fs
    /\ UNCHANGED << caller, inv, event, s3objects, bucket, key, ext, file_id,
                    input_path, output_dir, resolutions, filters, cmd, proc,
                    output_files, iter, retval, response >>

\* lines 44-49: the video filter of stream idx
VFilter(idx, width, height) ==
    "[0:v]scale=" \o ToString(width) \o "x" \o ToString(height)
        \o ":force_original_aspect_ratio=decrease,"
        \o "pad=width=ceil(iw/2)*2:height=ceil(ih/2)*2:x=(ow-iw)/2:y=(oh-ih)/2,"
        \o "format=yuv420p,setsar=1[v" \o ToString(idx) \o "]"

\* line 53: the audio filter of stream idx
AFilter(idx) == "[0:a]aresample=async=1[a" \o ToString(idx) \o "]"

\* mutant: the labels do not carry the loop index
StreamMap_first(idx) == << "-map", "[v0]", "-map", "[a0]" >>

\* line 57: the two -map options of stream idx
StreamMap(idx) ==
    << "-map", "[v" \o ToString(idx) \o "]", "-map", "[a" \o ToString(idx) \o "]" >>

\* line 68: AUDIO_BITRATES.get(height, "64k")
\* mutant: a height missing from the table gets the highest bitrate
AudioBitrate_fallback128(height) ==
    IF height \in DOMAIN AUDIO_BITRATES THEN AUDIO_BITRATES[height] ELSE "128k"

AudioBitrate(height) ==
    IF height \in DOMAIN AUDIO_BITRATES THEN AUDIO_BITRATES[height] ELSE "64k"

\* lines 60-69: the encoding options of stream idx
StreamParams(idx, width, height) ==
    << "-c:v:" \o ToString(idx), "libx264",
       "-crf:" \o ToString(idx), "23",
       "-preset:" \o ToString(idx), "fast",
       "-b:v:" \o ToString(idx), ToString(width) \o "k",
       "-maxrate:" \o ToString(idx), ToString(width) \o "k",
       "-bufsize:" \o ToString(idx), ToString(width * 2) \o "k",
       "-c:a:" \o ToString(idx), "aac",
       "-b:a:" \o ToString(idx), AudioBitrate(height) >>

RECURSIVE BuildFilters(_, _)
\* lines 42-54: filters after the first n iterations of the loop
BuildFilters(res, n) ==
    IF n = 0 THEN <<>>
    ELSE BuildFilters(res, n - 1)
            \o << VFilter(n - 1, res[n][1], res[n][2]), AFilter(n - 1) >>

RECURSIVE BuildMappings(_, _)
\* lines 42-57: stream_mappings after the first n iterations
BuildMappings(res, n) ==
    IF n = 0 THEN <<>> ELSE BuildMappings(res, n - 1) \o StreamMap(n - 1)

RECURSIVE BuildParams(_, _)
\* lines 42-69: output_params after the first n iterations
BuildParams(res, n) ==
    IF n = 0 THEN <<>>
    ELSE BuildParams(res, n - 1) \o StreamParams(n - 1, res[n][1], res[n][2])

RECURSIVE Join(_, _)
\* sep.join(strs)
Join(strs, sep) ==
    IF strs = <<>> THEN ""
    ELSE IF Len(strs) = 1 THEN strs[1]
    ELSE strs[1] \o sep \o Join(Tail(strs), sep)

\* mutant: the test of line 71 is missing
NothingBuilt_never(fl, maps) == FALSE

\* line 71: the test that rejects an empty result of the loop
NothingBuilt(fl, maps) == fl = <<>> \/ maps = <<>>

\* lines 75-91: the command list
Command(inp, out, fl, maps, params) ==
    << ffmpeg_path, "-i", inp, "-y", "-filter_complex", Join(fl, ";") >>
        \o maps
        \o << "-f", "dash",
              "-seg_duration", "6",
              "-use_timeline", "1",
              "-use_template", "1",
              "-init_seg_name", "init_$RepresentationID$.m4s",
              "-media_seg_name", "segment_$RepresentationID$_$Number$.m4s",
              "-adaptation_sets", "id=0,streams=v id=1,streams=a" >>
        \o params
        \o << out \o "/manifest.mpd" >>

\* lines 38-91: the loop over the resolutions, the test and the command
Build ==
    /\ pc = "build"
    /\ LET n == Len(resolutions)
           fl == BuildFilters(resolutions, n)
           maps == BuildMappings(resolutions, n)
           params == BuildParams(resolutions, n)
       IN  /\ filters' = fl
           /\ IF NothingBuilt(fl, maps)
              THEN /\ RaiseInRun(Exc("ValueError",
                        "No valid FFmpeg filter chains or stream mappings generated."))
                   /\ UNCHANGED cmd
              ELSE /\ cmd' = Command(input_path, output_dir, fl, maps, params)
                   /\ pc' = "spawn"
                   /\ UNCHANGED exc
    /\ UNCHANGED << caller, inv, event, fs, s3objects, bucket, key, ext, file_id,
                    input_path, output_dir, resolutions, proc, output_files,
                    iter, retval, response, log >>

\* what a failing ffmpeg process may have written before it gave up
FailedProducedSets == { {}, {Entry(manifest_mpd, "file")} }

\* the directory node after the process wrote the entries of produced into it
WrittenInto(node, produced) ==
    DirNode({e \in node.entries : \A q \in produced : q.name # e.name} \cup produced)

\* lines 94-99: subprocess.run(cmd, ...), which returns when the process has exited
Spawn ==
    /\ pc = "spawn"
    /\ \E rc \in {0, 1} :
       \E err \in IF rc = 0 THEN {""} ELSE StderrTexts :
       \E produced \in IF rc = 0 THEN ProducedSets ELSE FailedProducedSets :
          /\ proc' = [returncode |-> rc, stderr |-> err, wrote |-> produced]
          /\ fs' = IF IsDir(fs, output_dir)
                   THEN Written(fs, output_dir, WrittenInto(fs[output_dir], produced))
                   ELSE fs
          /\ log' = Append(log, LogEntry("spawn", cmd[1], rc = 0))
    /\ pc' = "check"
    /\ UNCHANGED << caller, inv, event, s3objects, bucket, key, ext, file_id,
                    input_path, output_dir, resolutions, filters, cmd,
                    output_files, iter, exc, retval, response >>

\* mutant: the message leaves out what the process wrote to stderr
FfmpegFailed_generic(stderr) == "FFmpeg failed"

\* line 102: the message of the RuntimeError
FfmpegFailed(stderr) == "FFmpeg failed with error: " \o stderr

\* mutant: the listing leaves out the manifest
FileNames_segments(f, p) ==
    IF IsDir(f, p)
    THEN {Str(e.name) : e \in {d \in f[p].entries : d.kind = "file"}} \ {"manifest.mpd"}
    ELSE {}

\* line 104: the names of the regular files of directory p
FileNames(f, p) ==
    IF IsDir(f, p) THEN {Str(e.name) : e \in {d \in f[p].entries : d.kind = "file"}}
    ELSE {}

\* line 147: what output_dir.iterdir() yields
Iterdir(f, p) == IF IsDir(f, p) THEN f[p].entries ELSE {}

\* lines 101-104, and line 147 when the handler called
CheckResult ==
    /\ pc = "check"
    /\ IF proc.returncode # 0
       THEN /\ RaiseInRun(Exc("RuntimeError", FfmpegFailed(proc.stderr)))
            /\ UNCHANGED << output_files, iter >>
       ELSE /\ output_files' = FileNames(fs, output_dir)
            /\ UNCHANGED exc
            /\ IF caller = "handler"
               THEN /\ iter' = Iterdir(fs, output_dir)
                    /\ pc' = "upload"
               ELSE /\ pc' = "returned"
                    /\ UNCHANGED iter
    /\ UNCHANGED << caller, inv, event, fs, s3objects, bucket, key, ext, file_id,
                    input_path, output_dir, resolutions, filters, cmd, proc,
                    retval, response, log >>

-----------------------------------------------------------------------------
(* lambda_handler, continued *)

\* line 125
\* mutant: each invocation gets a prefix of its own
DashPrefix_perInvocation(stem) == "dash/" \o Str(stem) \o "-" \o ToString(inv)

DashPrefix(stem) == "dash/" \o Str(stem)

\* mutant: every file is uploaded as video/mp4
ContentTypeOf_video(name) == "video/mp4"

\* line 149: the content type of an output file
ContentTypeOf(name) ==
    IF NameSuffix(name) = <<".", "mpd">> THEN "application/dash+xml" ELSE "video/mp4"

\* line 153: the destination key of an output file
DestKey(stem, name) == DashPrefix(stem) \o "/" \o Str(name)

\* lines 150-155: s3.upload_file stores the object
\* mutant: an upload replaces the whole content of the store
Uploaded_replacing(objs, b, k, ctype, n) ==
    [o \in {<<b, k>>} |-> [ContentType |-> ctype, from |-> n]]

Uploaded(objs, b, k, ctype, n) ==
    Written(objs, <<b, k>>, [ContentType |-> ctype, from |-> n])

\* line 148: only regular files are uploaded
IsFile(e) == e.kind = "file"

\* mutant: a failed upload is skipped and the loop goes on
UploadFailed_skipped ==
    /\ pc' = "upload"
    /\ UNCHANGED exc

\* an upload_file call that raised: the exception leaves the loop
UploadFailed ==
    RaiseInTry(Exc("S3UploadFailedError", "Failed to upload: AccessDenied"))

\* lines 147-155: one iteration of the upload loop, or its end
UploadNext ==
    /\ pc = "upload"
    /\ IF iter = {}
       THEN /\ pc' = "respond"
            /\ UNCHANGED << iter, s3objects, exc, log >>
       ELSE \E file \in iter :
              /\ iter' = iter \ {file}
              /\ IF ~IsFile(file)
                 THEN /\ pc' = "upload"
                      /\ UNCHANGED << s3objects, exc, log >>
                 ELSE LET k == DestKey(file_id, file.name)
                      IN  \/ /\ s3objects' = Uploaded(s3objects, output_bucket, k,
                                                      ContentTypeOf(file.name), inv)
                             /\ log' = Append(log, LogEntry("upload", k, TRUE))
                             /\ pc' = "upload"
                             /\ UNCHANGED exc
                          \/ /\ UploadFailed
                             /\ log' = Append(log, LogEntry("upload", k, FALSE))
                             /\ UNCHANGED s3objects
    /\ UNCHANGED << caller, inv, event, fs, bucket, key, ext, file_id,
                    input_path, output_dir, resolutions, filters, cmd, proc,
                    output_files, retval, response >>

\* line 157
ManifestUrl(b, stem) ==
    "https://" \o b \o ".s3.amazonaws.com/" \o DashPrefix(stem) \o "/manifest.mpd"

\* line 168
OutputPrefix(b, stem) == "s3://" \o b \o "/" \o DashPrefix(stem) \o "/"

\* lines 162-170: the value of the return statement
SuccessResponse(b, stem, files) ==
    [statusCode |-> 200,
     body |-> [message |-> "DASH conversion successful",
               manifest_url |-> ManifestUrl(b, stem),
               files |-> files,
               output_prefix |-> OutputPrefix(b, stem)]]

\* lines 157-170: the return statement, whose value waits for the finally block
Respond ==
    /\ pc = "respond"
    /\ retval' = SuccessResponse(bucket, file_id, output_files)
    /\ pc' = "finally"
    /\ UNCHANGED << caller, inv, event, fs, s3objects, bucket, key, ext, file_id,
                    input_path, output_dir, resolutions, filters, cmd, proc,
                    output_files, iter, exc, response, log >>

\* mutant: the deletion is not wrapped in try/except, its exception propagates
CleanupFailed_raises(next) ==
    /\ exc' = Exc("PermissionError", "[Errno 13] Permission denied")
    /\ pc' = "except"
    /\ UNCHANGED retval

\* lines 180-181 and 186-187: a deletion that failed in the finally block is
\* printed and the block goes on
CleanupFailed(next) ==
    /\ pc' = next
    /\ UNCHANGED << exc, retval >>

\* lines 175-181: the finally block starts; the input file is removed if it exists
FinallyInput ==
    /\ pc = "finally"
    /\ IF ~Exists(fs, input_path)
       THEN /\ pc' = "finally_output"
            /\ log' = Append(log, LogEntry("finally", "", TRUE))
            /\ UNCHANGED << fs, exc, retval >>
       ELSE \/ /\ fs' = Unlinked(fs, input_path)
               /\ log' = log \o << LogEntry("finally", "", TRUE),
                                   LogEntry("remove", input_path, TRUE) >>
               /\ pc' = "finally_output"
               /\ UNCHANGED << exc, retval >>
            \/ /\ CleanupFailed("finally_output")
               /\ log' = log \o << LogEntry("finally", "", TRUE),
                                   LogEntry("remove", input_path, FALSE) >>
               /\ UNCHANGED fs
    /\ UNCHANGED << caller, inv, event, s3objects, bucket, key, ext, file_id,
                    input_path, output_dir, resolutions, filters, cmd, proc,
                    output_files, iter, response >>

\* lines 183-187: the output directory is removed if it exists
FinallyOutput ==
    /\ pc = "finally_output"
    /\ IF ~Exists(fs, output_dir)
       THEN /\ pc' = "finally_end"
            /\ UNCHANGED << fs, exc, retval, log >>
       ELSE \/ /\ fs' = Rmtreed(fs, output_dir)
               /\ log' = Append(log, LogEntry("rmtree_finally", output_dir, TRUE))
               /\ pc' = "finally_end"
               /\ UNCHANGED << exc, retval >>
            \/ /\ CleanupFailed("finally_end")
               /\ log' = Append(log, LogEntry("rmtree_finally", output_dir, FALSE))
               /\ UNCHANGED fs
    /\ UNCHANGED << caller, inv, event, s3objects, bucket, key, ext, file_id,
                    input_path, output_dir, resolutions, filters, cmd, proc,
                    output_files, iter, response >>

\* the finally block is done: the pending return value is returned, or the
\* pending exception goes on to the outer handler
FinallyEnd ==
    /\ pc = "finally_end"
    /\ IF exc # NoExc
       THEN /\ pc' = "except"
            /\ UNCHANGED response
       ELSE /\ response' = retval
            /\ pc' = "returned"
    /\ UNCHANGED << caller, inv, event, fs, s3objects, bucket, key, ext, file_id,
                    input_path, output_dir, resolutions, filters, cmd, proc,
                    output_files, iter, exc, retval, log >>

\* lines 191-194: the value the outer handler returns for exception e
ErrorResponse(e) == [statusCode |-> 500, body |-> "Error: " \o e.msg]

\* lines 189-194: except Exception as e
OuterExcept ==
    /\ pc = "except"
    /\ response' = ErrorResponse(exc)
    /\ pc' = "returned"
    /\ UNCHANGED << caller, inv, event, fs, s3objects, bucket, key, ext, file_id,
                    input_path, output_dir, resolutions, filters, cmd, proc,
                    output_files, iter, exc, retval, log >>

-----------------------------------------------------------------------------

Next ==
    \/ Invoke
    \/ ParseEvent
    \/ ResetInput
    \/ ResetOutput
    \/ Download
    \/ CallRunFfmpegDash
    \/ Mkdir
    \/ Build
    \/ Spawn
    \/ CheckResult
    \/ UploadNext
    \/ Respond
    \/ FinallyInput
    \/ FinallyOutput
    \/ FinallyEnd
    \/ OuterExcept

Spec == Init /\ [][Next]_vars

-----------------------------------------------------------------------------
(* Vocabulary of the properties *)

\* lambda_handler has returned to the runtime
Returned == caller = "handler" /\ pc = "returned"

\* the positions of the log entries of operation op
Ops(op) == {i \in DOMAIN log : log[i].op = op}

\* the event was parsed: it names a bucket and a key
Parsed == key # <<>>

\* the invocation got as far as the download (the staging reset completed)
ReachedDownload == Ops("download") # {}

\* the staging paths of the key of this invocation (lines 128-129)
StagedInput == InputPathOf(PathStem(key), ext)
StagedOutput == OutputDirOf(PathStem(key))

\* operation op on path p was attempted and failed
Failed(op, p) == \E i \in Ops(op) : log[i].arg = p /\ ~log[i].ok

-----------------------------------------------------------------------------
(* C1 *)

\* C1 as stated: whenever lambda_handler has returned for an event that names a
\* key, neither staging path of that key exists.
C1_AsStated ==
    (Returned /\ Parsed) => (~Exists(fs, StagedInput) /\ ~Exists(fs, StagedOutput))

\* C1, amended: when lambda_handler has returned from an invocation that reached
\* the download, each staging path is absent unless its deletion in the finally
\* block failed.
C1_CleanupAfterDownload ==
    (Returned /\ ReachedDownload) =>
        /\ (~Exists(fs, input_path) \/ Failed("remove", input_path))
        /\ (~Exists(fs, output_dir) \/ Failed("rmtree_finally", output_dir))

\* C1 witness: a failed transcode after which both paths existed and were deleted.
C1_Witness ==
    /\ Returned
    /\ response.statusCode = 500
    /\ exc.type = "RuntimeError"
    /\ \E i \in Ops("remove") : log[i].ok
    /\ \E i \in Ops("rmtree_finally") : log[i].ok
    /\ ~Exists(fs, input_path)
    /\ ~Exists(fs, output_dir)

-----------------------------------------------------------------------------
(* C2 *)

\* the positions of lambda_handler; at each of them one step of it is enabled
HandlerPositions ==
    {"parse", "reset_input", "reset_output", "download", "mkdir", "build", "spawn",
     "check", "upload", "respond", "finally", "finally_output", "finally_end",
     "except", "returned"}

\* C2: no exception leaves lambda_handler: it is always at one of its own
\* positions, never raised to its caller; what it returns has status 200, 400 or
\* 500, and when an exception was raised the status is 500 and the body is
\* "Error: " followed by the exception's message.
C2_NeverRaises ==
    /\ (caller = "handler" /\ inv > 0) => pc \in HandlerPositions
    /\ (caller = "handler" /\ exc # NoExc) =>
          pc \in {"finally", "finally_output", "finally_end", "except", "returned"}
    /\ Returned =>
          /\ response.statusCode \in {200, 400, 500}
          /\ exc # NoExc =>
                /\ response.statusCode = 500
                /\ response.body = "Error: " \o exc.msg
          /\ exc = NoExc => response.statusCode \in {200, 400}

\* C2 witness: an upload failed, a deletion of the finally block failed as well,
\* and the handler returned 500.
C2_Witness ==
    /\ Returned
    /\ response.statusCode = 500
    /\ exc.type = "S3UploadFailedError"
    /\ Failed("remove", input_path)

-----------------------------------------------------------------------------
(* C3 *)

\* C3 as stated: every invocation that has returned ran the finally block
\* exactly once.
C3_AsStated == Returned => Cardinality(Ops("finally")) = 1

\* C3, amended: the finally block runs exactly once, before the return, in every
\* invocation that reached the download, and not at all in one that ended
\* before it (malformed event, unsupported extension, failed staging reset).
C3_CleanupOncePerTry ==
    /\ Cardinality(Ops("finally")) <= 1
    /\ Returned =>
          Cardinality(Ops("finally")) = (IF ReachedDownload THEN 1 ELSE 0)

\* C3 witness: the download failed and the finally block ran once before the return.
C3_Witness ==
    /\ Returned
    /\ exc.type = "ClientError"
    /\ Cardinality(Ops("finally")) = 1

-----------------------------------------------------------------------------
(* C4 *)

\* the raw keys of Keys whose lower-cased extension is not an allowed one
UnsupportedKeys == { <<"clip", ".", "txt">>, <<"clip">>, <<".", "mp4">> }

\* the handler is about to parse a well-formed event whose key has an
\* extension outside ALLOWED_EXTENSIONS
AtUnsupportedKey ==
    /\ caller = "handler"
    /\ pc = "parse"
    /\ ParseError(event) = NoExc
    /\ \/ event.Records[1].s3.object.key \in UnsupportedKeys
       \/ Lower(PathSuffix(unquote_plus(event.Records[1].s3.object.key)))
              \notin ALLOWED_EXTENSIONS

\* C4: for a key with an unsupported extension the handler returns status 400
\* in its parsing step: nothing was downloaded, transcoded, uploaded or deleted,
\* and the staging filesystem and the uploaded objects are as they were.
C4_UnsupportedIs400 ==
    [][ AtUnsupportedKey =>
          /\ pc' = "returned"
          /\ response'.statusCode = 400
          /\ log' = <<>>
          /\ fs' = fs
          /\ s3objects' = s3objects ]_vars

\* C4 witness: 400 for clip.txt while the leftovers of an earlier run are in place.
C4_Witness ==
    /\ Returned
    /\ response.statusCode = 400
    /\ ext = <<".", "txt">>
    /\ log = <<>>
    /\ Exists(fs, "/tmp/clip_dash_output")

-----------------------------------------------------------------------------
(* C5 *)

\* what the handler returns when the process wrote text to stderr and failed
FfmpegErrorBody(text) == "Error: FFmpeg failed with error: " \o text

\* C5 as stated: after a non-zero exit the handler returns 500 with the stderr
\* text in the body, uploads nothing, and both staging paths are gone.
C5_AsStated ==
    (Returned /\ proc.returncode # 0) =>
        /\ response.statusCode = 500
        /\ response.body = FfmpegErrorBody(proc.stderr)
        /\ Ops("upload") = {}
        /\ ~Exists(fs, input_path)
        /\ ~Exists(fs, output_dir)

\* C5, amended: after a non-zero exit the handler returns 500 with the stderr
\* text in the body and uploads nothing; each staging path is gone unless its
\* deletion in the finally block failed.
C5_TranscodeFailure ==
    /\ (caller = "handler" /\ proc.returncode # 0) => Ops("upload") = {}
    /\ (Returned /\ proc.returncode # 0) =>
          /\ response.statusCode = 500
          /\ response.body = FfmpegErrorBody(proc.stderr)
          /\ (~Exists(fs, input_path) \/ Failed("remove", input_path))
          /\ (~Exists(fs, output_dir) \/ Failed("rmtree_finally", output_dir))

\* C5 witness: exit code 1 with stderr "Invalid data found", both paths deleted.
C5_Witness ==
    /\ Returned
    /\ proc.returncode = 1
    /\ proc.stderr = "Invalid data found"
    /\ response.body = "Error: FFmpeg failed with error: Invalid data found"
    /\ \E i \in Ops("remove") : log[i].ok
    /\ \E i \in Ops("rmtree_finally") : log[i].ok
    /\ DOMAIN fs = {}

-----------------------------------------------------------------------------
(* C6 *)

\* C6: once an upload_file call has failed, no upload follows it (no retry, no
\* further file), the exception is on its way out through the finally block,
\* the response is never 200, and the handler returns 500 after the finally
\* block ran.
C6_UploadFailureFatal ==
    caller = "handler" =>
        \A i \in Ops("upload") :
            ~log[i].ok =>
                /\ \A j \in Ops("upload") : j <= i
                /\ pc \in {"finally", "finally_output", "finally_end", "except", "returned"}
                /\ exc.type = "S3UploadFailedError"
                /\ response.statusCode # 200
                /\ Returned =>
                      /\ response.statusCode = 500
                      /\ Cardinality(Ops("finally")) = 1

\* C6 witness: the first upload failed while another file was still to be
\* uploaded, and the handler returned 500.
C6_Witness ==
    /\ Returned
    /\ response.statusCode = 500
    /\ iter # {}
    /\ \E i \in Ops("upload") : ~log[i].ok

-----------------------------------------------------------------------------
(* C7 *)

\* the response decided when the finally block is entered
Determined ==
    IF exc # NoExc THEN [statusCode |-> 500, body |-> "Error: " \o exc.msg] ELSE retval

SameResponse(a, b) == a.statusCode = b.statusCode /\ a.body = b.body

\* C7: the two deletion steps of the finally block change neither the pending
\* exception nor the pending return value, whether they succeed or fail; the
\* step for the output directory follows the step for the input file and
\* attempts its deletion whenever the directory exists; and what the handler
\* then returns is the response decided before the block.
C7_CleanupNeverChangesResponse ==
    [][ /\ (caller = "handler" /\ pc \in {"finally", "finally_output"}) =>
              /\ exc' = exc
              /\ retval' = retval
              /\ response' = response
              /\ pc' = (IF pc = "finally" THEN "finally_output" ELSE "finally_end")
              /\ (pc = "finally_output" /\ Exists(fs, output_dir)) =>
                     Ops("rmtree_finally")' # {}
        /\ (caller = "handler" /\ pc \in {"finally_end", "except"}) =>
              /\ pc' \in {"except", "returned"}
              /\ exc' = exc
              /\ pc' = "returned" => SameResponse(response', Determined) ]_vars

\* C7 witness: both deletions failed and the handler still returned 200.
C7_Witness ==
    /\ Returned
    /\ response.statusCode = 200
    /\ Failed("remove", input_path)
    /\ Failed("rmtree_finally", output_dir)

-----------------------------------------------------------------------------
(* C8 *)

\* the destination key of file name n; every key of Keys has the stem clip
ClipKey(n) == "dash/clip/" \o n

\* C8: while the handler uploads, output_files is the set of regular files of
\* the output directory; when it has returned 200, every upload succeeded, each
\* of those files was uploaded exactly once and nothing else was, and each is
\* an object of manifestdatabucket under dash/clip/<name>, written by this
\* invocation, of type application/dash+xml for the .mpd file and video/mp4
\* otherwise.
C8_UploadsAreTheOutputFiles ==
    /\ (caller = "handler" /\ pc \in {"upload", "respond"}) =>
          output_files = FileNames(fs, output_dir)
    /\ (Returned /\ response.statusCode = 200) =>
          /\ \A i \in Ops("upload") : log[i].ok
          /\ \A i \in Ops("upload") : \E n \in output_files : log[i].arg = ClipKey(n)
          /\ \A n \in output_files :
                /\ Cardinality({i \in Ops("upload") : log[i].arg = ClipKey(n)}) = 1
                /\ <<"manifestdatabucket", ClipKey(n)>> \in DOMAIN s3objects
                /\ s3objects[<<"manifestdatabucket", ClipKey(n)>>] =
                      [ContentType |-> IF n = "manifest.mpd"
                                       THEN "application/dash+xml" ELSE "video/mp4",
                       from |-> inv]
          /\ \A o \in DOMAIN s3objects : s3objects[o].from = inv => o[1] = "manifestdatabucket"

\* C8 witness: a 200 response after the manifest and a segment were uploaded.
C8_Witness ==
    /\ Returned
    /\ response.statusCode = 200
    /\ output_files = {"manifest.mpd", "init_0.m4s"}
    /\ Cardinality(Ops("upload")) = 2

-----------------------------------------------------------------------------
(* C9 *)

\* the names of the regular files the process wrote
WrittenNames == {Str(e.name) : e \in {d \in proc.wrote : d.kind = "file"}}

\* C9 as stated: a run over the leftovers of a crashed run returns what a clean
\* run returns.  A clean run finds nothing to delete before the download: it
\* returns 200 or the error of the download, of mkdir, of the process or of an
\* upload.
C9_AsStated ==
    (Returned /\ Parsed /\ ext \in ALLOWED_EXTENSIONS) =>
        exc.type \in {"none", "ClientError", "OSError", "RuntimeError",
                      "S3UploadFailedError"}

\* C9, amended: in an invocation that reaches the download, neither staging
\* path exists when the download starts, so the files listed and uploaded are
\* exactly those the process wrote in this invocation, as in a clean run.
C9_CleanSlate ==
    /\ (caller = "handler" /\ pc = "download") =>
          (~Exists(fs, input_path) /\ ~Exists(fs, output_dir))
    /\ (caller = "handler" /\ ReachedDownload) =>
          /\ \A i \in Ops("upload") : \E n \in WrittenNames : log[i].arg = ClipKey(n)
          /\ pc \in {"upload", "respond"} => output_files = WrittenNames
          /\ (Returned /\ response.statusCode = 200) =>
                /\ response.body.files = WrittenNames
                /\ {log[i].arg : i \in Ops("upload")} = {ClipKey(n) : n \in WrittenNames}

\* C9 witness: leftovers of both kinds were removed, and the 200 response lists
\* the two files of this run and not the stale segment.
C9_Witness ==
    /\ Returned
    /\ response.statusCode = 200
    /\ \E i \in Ops("unlink") : log[i].ok
    /\ \E i \in Ops("rmtree") : log[i].ok
    /\ response.body.files = {"manifest.mpd", "init_0.m4s"}

-----------------------------------------------------------------------------
(* C10 *)

-----------------------------------------------------------------------------
(* C11 *)

\* run_ffmpeg_dash has built its command
Built == cmd # <<>>

\* the positions of the -map options of command c
MapIdx(c) == {i \in 1..(Len(c) - 1) : c[i] = "-map"}

\* the positions at which command c maps the stream labelled l
MapsOf(c, l) == {i \in MapIdx(c) : c[i + 1] = l}

\* the video filter expected for stream k of size w x h, and the audio filter
ExpectedVideoFilter(k, w, h) ==
    "[0:v]scale=" \o ToString(w) \o "x" \o ToString(h)
        \o ":force_original_aspect_ratio=decrease,pad=width=ceil(iw/2)*2:height=ceil(ih/2)*2:x=(ow-iw)/2:y=(oh-ih)/2,format=yuv420p,setsar=1[v"
        \o ToString(k) \o "]"

ExpectedAudioFilter(k) == "[0:a]aresample=async=1[a" \o ToString(k) \o "]"

\* C11: a command built from N resolutions (N >= 1) has 2N -map options, one
\* for [vk] and one for [ak] for each k in 0..N-1, video before audio and k in
\* increasing order; the filter list has 2N expressions, the video filter of
\* the k-th resolution (labelled [vk]) followed by the audio filter [ak]; and
\* the filter graph passed after -filter_complex is that list joined by ";".
C11_MapsAndFilters ==
    Built =>
        LET N == Len(resolutions)
        IN  /\ N >= 1
            /\ Cardinality(MapIdx(cmd)) = 2 * N
            /\ Len(filters) = 2 * N
            /\ cmd[5] = "-filter_complex"
            /\ cmd[6] = Join(filters, ";")
            /\ \A k \in 0..(N - 1) :
                  /\ MapsOf(cmd, "[v" \o ToString(k) \o "]") = {7 + 4 * k}
                  /\ MapsOf(cmd, "[a" \o ToString(k) \o "]") = {9 + 4 * k}
                  /\ filters[2 * k + 1] =
                        ExpectedVideoFilter(k, resolutions[k + 1][1], resolutions[k + 1][2])
                  /\ filters[2 * k + 2] = ExpectedAudioFilter(k)

\* C11 witness: a command built from two different resolutions.
C11_Witness ==
    /\ caller = "direct"
    /\ Built
    /\ resolutions = << <<100, 100>>, <<1280, 720>> >>
    /\ Len(filters) = 4
    /\ Cardinality(MapIdx(cmd)) = 4

-----------------------------------------------------------------------------
(* C12 *)

\* C12 as stated: in a 200 response, output_prefix is the URI of the bucket and
\* key prefix the files of this invocation were uploaded under, which is
\* manifestdatabucket and dash/clip/ for every key of Keys.
C12_AsStated ==
    (Returned /\ response.statusCode = 200) =>
        /\ response.body.output_prefix = "s3://manifestdatabucket/dash/clip/"
        /\ \A o \in DOMAIN s3objects :
              s3objects[o].from = inv =>
                  \E n \in response.body.files :
                      "s3://" \o o[1] \o "/" \o o[2] = response.body.output_prefix \o n

-----------------------------------------------------------------------------
(* C13 *)

\* the keys of the objects this invocation wrote to the destination bucket
WrittenKeys ==
    {o[2] : o \in {q \in DOMAIN s3objects :
                       q[1] = "manifestdatabucket" /\ s3objects[q].from = inv}}

\* C13: in a 200 response, the names of the files field are exactly the names
\* of the files whose upload succeeded in this invocation, which are exactly
\* the objects this invocation wrote to the destination bucket.
C13_FilesAreTheUploads ==
    (Returned /\ response.statusCode = 200) =>
        /\ {ClipKey(n) : n \in response.body.files} =
              {log[i].arg : i \in {j \in Ops("upload") : log[j].ok}}
        /\ {ClipKey(n) : n \in response.body.files} = WrittenKeys

\* C13 witness: a 200 response that lists the manifest alone, which was uploaded.
C13_Witness ==
    /\ Returned
    /\ response.statusCode = 200
    /\ response.body.files = {"manifest.mpd"}
    /\ WrittenKeys = {"dash/clip/manifest.mpd"}

-----------------------------------------------------------------------------
(* C14 *)

\* the operations of the log, in order
LogOps == [i \in DOMAIN log |-> log[i].op]

\* C14: within an invocation nothing is done before the event is validated;
\* the download and the process are each attempted at most once and no file is
\* uploaded twice; the process is spawned only after a successful download
\* (after a failed one there is no process and no upload), an upload is
\* attempted only after the process exited with code 0, the return value is
\* built only after the last upload, and 200 is returned only if the download
\* succeeded, the process exited 0 and every file it wrote was uploaded.
C14_StepOrder ==
    caller = "handler" =>
        /\ pc = "parse" => log = <<>>
        /\ Cardinality(Ops("download")) <= 1
        /\ Cardinality(Ops("spawn")) <= 1
        /\ \A i, j \in Ops("upload") : log[i].arg = log[j].arg => i = j
        /\ \A i \in Ops("spawn") : \E j \in Ops("download") : j < i /\ log[j].ok
        /\ \A i \in Ops("upload") : \E j \in Ops("spawn") : j < i /\ log[j].ok
        /\ (\E j \in Ops("download") : ~log[j].ok) =>
              (Ops("spawn") = {} /\ Ops("upload") = {})
        /\ retval.statusCode = 200 =>
              /\ iter = {}
              /\ \A i \in Ops("upload") : log[i].ok
        /\ (Returned /\ response.statusCode = 200) =>
              /\ \E j \in Ops("download") : log[j].ok
              /\ \E j \in Ops("spawn") : log[j].ok
              /\ proc.returncode = 0
              /\ \A i \in Ops("upload") : log[i].ok
              /\ \A n \in WrittenNames : \E i \in Ops("upload") : log[i].arg = ClipKey(n)

\* C14 witness: a complete run in order: download, mkdir, process, two uploads,
\* then the finally block with its two deletions, and a 200 response.
C14_Witness ==
    /\ Returned
    /\ response.statusCode = 200
    /\ LogOps = << "download", "mkdir", "spawn", "upload", "upload",
                   "finally", "remove", "rmtree_finally" >>

-----------------------------------------------------------------------------
(* C15 *)

\* the positions of an option in a command line, and the argument after it
FlagIdx(c, flag) == {i \in 1..(Len(c) - 1) : c[i] = flag}
ArgAfter(c, flag) == c[(CHOOSE i \in FlagIdx(c, flag) : TRUE) + 1]

\* the audio bitrate the specification gives for a height
ExpectedAudio(h) ==
    CASE h = 720 -> "128k"
      [] h = 480 -> "96k"
      [] h = 360 -> "64k"
      [] h = 240 -> "48k"
      [] OTHER   -> "64k"

\* the per-stream rate options of the command line
RateFlags(k) ==
    { "-b:v:" \o ToString(k), "-maxrate:" \o ToString(k),
      "-bufsize:" \o ToString(k), "-b:a:" \o ToString(k) }

\* C15: in a built command, for each entry i (0-based) of the list with width
\* w and height h, each of -b:v:i, -maxrate:i, -bufsize:i and -b:a:i occurs
\* exactly once; the video bitrate and the maxrate are w followed by "k", the
\* buffer size is 2*w followed by "k", and the audio bitrate is the table's
\* value for h (720 128k, 480 96k, 360 64k, 240 48k) or 64k for any other h.
C15_Rates ==
    /\ \A h \in {720, 480, 360, 240, 100, 1080} : AudioBitrate(h) = ExpectedAudio(h)
    /\ Built =>
         \A i \in 1..Len(resolutions) :
            LET k == i - 1
                w == resolutions[i][1]
                h == resolutions[i][2]
            IN  /\ \A f \in RateFlags(k) : Cardinality(FlagIdx(cmd, f)) = 1
                /\ ArgAfter(cmd, "-b:v:" \o ToString(k)) = ToString(w) \o "k"
                /\ ArgAfter(cmd, "-maxrate:" \o ToString(k)) = ToString(w) \o "k"
                /\ ArgAfter(cmd, "-bufsize:" \o ToString(k)) = ToString(w + w) \o "k"
                /\ ArgAfter(cmd, "-b:a:" \o ToString(k)) = ExpectedAudio(h)

\* C15 witness: a command built for a height of the table and then a height
\* missing from it: 1280k/1280k/2560k/128k for stream 0, 100k/100k/200k/64k
\* for stream 1.
C15_Witness ==
    /\ Built
    /\ resolutions = << <<1280, 720>>, <<100, 100>> >>
    /\ ArgAfter(cmd, "-bufsize:0") = "2560k"
    /\ ArgAfter(cmd, "-b:a:0") = "128k"
    /\ ArgAfter(cmd, "-bufsize:1") = "200k"
    /\ ArgAfter(cmd, "-b:a:1") = "64k"

-----------------------------------------------------------------------------
(* C16 *)

\* an invocation in progress on an event that lacks one of the fields read
Malformed == caller = "handler" /\ event \in MalformedEvents /\ pc # "idle"

\* the bodies of the responses to the malformed events
MalformedBodies ==
    { "Error: 'Records'", "Error: list index out of range",
      "Error: 'name'", "Error: 'key'" }

\* C16: an invocation on a malformed event (no Records, an empty Records, no
\* bucket name, no object key) goes from parsing to the outer handler and
\* returns 500 with the exception's text, never raising; none of its steps
\* changes the file system or the objects of the store, and it performs no
\* operation at all: no staging path is deleted, nothing is downloaded,
\* transcoded or uploaded, and the finally block does not run.
C16_MalformedEvent ==
    [][ (Malformed /\ pc # "returned") =>
            /\ pc' \in {"except", "returned"}
            /\ fs' = fs
            /\ s3objects' = s3objects
            /\ log' = <<>>
            /\ pc' = "returned" =>
                  /\ response'.statusCode = 500
                  /\ response'.body \in MalformedBodies ]_vars

\* C16 witness: an event whose object has no key was answered with 500 and
\* "Error: 'key'", with no operation performed, in a staging area that held
\* leftovers of an earlier run.
C16_Witness ==
    /\ Returned
    /\ event \in MalformedEvents
    /\ "Records" \in DOMAIN event
    /\ response = [statusCode |-> 500, body |-> "Error: 'key'"]
    /\ log = <<>>
    /\ Exists(fs, "/tmp/clip_dash_output")

-----------------------------------------------------------------------------
(* C17 *)

\* the destination keys whose upload succeeded, in a log
UploadedKeys(l) == {l[i].arg : i \in {j \in DOMAIN l : l[j].op = "upload" /\ l[j].ok}}

\* C17: no step of the program removes an object from the store: the set of
\* stored objects only grows, and it changes only in a step that uploads a
\* file successfully. A failed upload, the finally block and the outer
\* handler leave the store as it is, so every object the invocation has
\* uploaded is still stored, as this invocation wrote it, when the later
\* failure is answered with 500.
C17_NoRollback ==
    [][ /\ DOMAIN s3objects \subseteq DOMAIN s3objects'
        /\ s3objects' # s3objects =>
              /\ pc = "upload"
              /\ exc' = NoExc
              /\ UploadedKeys(log') # UploadedKeys(log)
        /\ caller' = "handler" =>
              \A k \in UploadedKeys(log') :
                  /\ <<output_bucket, k>> \in DOMAIN s3objects'
                  /\ s3objects'[<<output_bucket, k>>].from = inv' ]_vars

\* C17 witness: the first upload succeeded, the second failed, the invocation
\* returned 500, and the object of the first upload is in the store.
C17_Witness ==
    /\ Returned
    /\ response.statusCode = 500
    /\ exc.type = "S3UploadFailedError"
    /\ Cardinality(Ops("upload")) = 2
    /\ Cardinality(UploadedKeys(log)) = 1
    /\ \A k \in UploadedKeys(log) :
          /\ <<output_bucket, k>> \in DOMAIN s3objects
          /\ s3objects[<<output_bucket, k>>].from = inv

-----------------------------------------------------------------------------
(* C18 *)

\* the supported source objects of the events: bucket, directory and extension
\* differ, the stem is "clip" in all of them
ClipSources ==
    { <<"uploads", <<"b", "/", "clip", ".", "mov">>, <<".", "mov">> >>,
      <<"archive", <<"b", "/", "clip", ".", "mov">>, <<".", "mov">> >>,
      <<"uploads", <<"videos", "/", "clip", ".", "MP4">>, <<".", "mp4">> >>,
      <<"uploads", <<"my", " ", "videos", "/", "clip", ".", "mp4">>, <<".", "mp4">> >> }

\* C18: the output staging directory and the destination keys are functions
\* of the stem (and of the file name) alone: whatever the source bucket, the
\* directory of the key and the extension, an invocation on a stem "clip"
\* stages its output in /tmp/clip_dash_output and uploads only to keys
\* dash/clip/<name> of the fixed bucket, <name> a file the process wrote; for
\* another stem both change with it. An object stored under such a key by an
\* earlier invocation is replaced by the later invocation's upload, and by
\* nothing else.
C18_StemCollision ==
    [][ /\ OutputDirOf(<<"a", ".", "b">>) = "/tmp/a.b_dash_output"
        /\ DestKey(<<"a", ".", "b">>, <<"manifest", ".", "mpd">>) = "dash/a.b/manifest.mpd"
        /\ (caller' = "handler" /\ output_dir' # "") =>
              /\ pc' \notin {"idle", "parse"}
              /\ <<bucket', key', ext'>> \in ClipSources
              /\ file_id' = <<"clip">>
              /\ output_dir' = "/tmp/clip_dash_output"
              /\ \A i \in DOMAIN log' :
                    log'[i].op = "upload" =>
                        \E n \in {Str(e.name) : e \in {d \in proc'.wrote : d.kind = "file"}} :
                            log'[i].arg = ClipKey(n)
        /\ \A o \in DOMAIN s3objects :
              s3objects'[o] # s3objects[o] =>
                  /\ o[1] = output_bucket
                  /\ o[2] \in UploadedKeys(log') \ UploadedKeys(log)
                  /\ s3objects[o].from < inv
                  /\ s3objects'[o].from = inv ]_vars

\* C18 witness: the second invocation, on archive/b/clip.mov, has uploaded
\* dash/clip/manifest.mpd, which is now its object, next to the object
\* dash/clip/init_0.m4s that the first invocation left under the same prefix.
C18_Witness ==
    /\ Returned
    /\ inv = 2
    /\ bucket = "archive"
    /\ ext = <<".", "mov">>
    /\ ClipKey("manifest.mpd") \in UploadedKeys(log)
    /\ <<output_bucket, ClipKey("init_0.m4s")>> \in DOMAIN s3objects
    /\ s3objects[<<output_bucket, ClipKey("manifest.mpd")>>].from = 2
    /\ s3objects[<<output_bucket, ClipKey("init_0.m4s")>>].from = 1

====
